---- MODULE Spec2Model ----
(***************************************************************************)
(* A model of RawSimradFile (echolab2/instruments/util/simrad_raw_file.py) *)
(* the datagram-level reader of SIMRAD .raw files.                         *)
(*                                                                         *)
(* A file is a sequence of bytes (0..255).  A datagram is laid out as      *)
(*   | size 4 | type 4 | time 8 | payload size-12 | size 4 |               *)
(* The reader keeps a byte position (BufferedReader.tell) and a datagram   *)
(* counter (_current_dgram_offset), plus the cached _total_dgram_count.    *)
(* Every method of the class is an operator computed the way the code      *)
(* computes it; every public operation is one action.                      *)
(***************************************************************************)
EXTENDS Integers, Sequences, FiniteSets, TLC

VARIABLES sid, pos, idx, total, held, last

vars == <<sid, pos, idx, total, held, last>>

(***************************************************************************)
(* Bounds of the model.                                                    *)
(***************************************************************************)
\* the longest file of the catalogue, in datagrams
MaxFrames == 2
\* the largest |offset| handed to seek()
MaxSeek == 2
\* the datagram counter is followed down to -MaxDrift
MaxDrift == 2
\* the search buffers tried besides search_buf_bytes hold 3..MaxChunk bytes
MaxChunk == 5

(***************************************************************************)
(* Bytes and their packing (struct.pack / struct.unpack).                  *)
(***************************************************************************)
Min(a, b) == IF a < b THEN a ELSE b

\* struct.pack('<l', n): little-endian signed 32-bit (two's complement)
pack_l(n) == << n % 256, (n \div 256) % 256, (n \div 65536) % 256, (n \div 16777216) % 256 >>

\* struct.unpack('=l', buf)[0]: little-endian signed 32-bit
unpack_l(b) ==
    b[1] + 256 * b[2] + 65536 * b[3]
      + 16777216 * (IF b[4] >= 128 THEN b[4] - 256 ELSE b[4])

\* one half of struct.unpack('=2L', buf): little-endian unsigned 32-bit.  The
\* value does not fit the integers of the checker, so it is kept as its two
\* base-65536 digits, the low one first
unpack_L(b) == << b[1] + 256 * b[2], b[3] + 256 * b[4] >>

\* the 32-bit value 0
NoDate == <<0, 0>>

(***************************************************************************)
(* The type tags (ISO-8859-1 codes).                                       *)
(***************************************************************************)
NME0 == <<78, 77, 69, 48>>
RAW0 == <<82, 65, 87, 48>>
RAW3 == <<82, 65, 87, 51>>
RAW4 == <<82, 65, 87, 52>>
CON0 == <<67, 79, 78, 48>>
TAG0 == <<84, 65, 71, 48>>
XML0 == <<88, 77, 76, 48>>
\* a tag that is in no table
ZZZ0 == <<90, 90, 90, 48>>

\* re_pattern = b'RAW|NME|TAG|BOT|DEP|XML|MRU'
re_pattern ==
    { <<82, 65, 87>>, <<78, 77, 69>>, <<84, 65, 71>>, <<66, 79, 84>>,
      <<68, 69, 80>>, <<88, 77, 76>>, <<77, 82, 85>> }

\* search_buf_bytes = 1024 * 1024 * 10
search_buf_bytes == 10485760

(***************************************************************************)
(* The catalogue of files.  A frame is written as the format table of the  *)
(* module docstring lays it out; a file is up to MaxFrames frames, whole   *)
(* or cut short (a file truncated while it was written).                   *)
(***************************************************************************)
Stamp == <<1, 0, 0, 0, 2, 0, 0, 0>>

Frame(size, type, payload, check) ==
    pack_l(size) \o type \o Stamp \o payload \o pack_l(check)

Pad(n) == [i \in 1..n |-> 7]

FrameKinds ==
    << Frame(16, NME0, Pad(4), 16),                       \* 1 intact
       Frame(16, RAW3, Pad(4), 16),                       \* 2 intact, payload below 128
       Frame(16, CON0, Pad(4), 16),                       \* 3 intact, not searched for
       Frame(16, NME0, Pad(4), 17),                       \* 4 trailing size differs
       Frame(12, TAG0, <<>>, 12),                         \* 5 size below 16
       Frame(16, RAW0, Pad(4), 16),                       \* 6 intact, 2-byte channel
       Frame(144, RAW4, Pad(132), 144),                   \* 7 intact, 128-byte channel id
       Frame(20, XML0, <<77, 82, 85, 48, 7, 7, 7, 7>>, 20), \* 8 intact, a tag in its payload
       Frame(16, NME0, Pad(4), -12),                      \* 9 trailing size negative
       Frame(16, ZZZ0, Pad(4), 16)                        \* 10 intact, unknown type
    >>

\* the kinds that are combined freely, and the files written for the others
Common == 1..5
Special ==
    { <<6>>, <<7>>, <<8>>, <<6, 1>>, <<7, 1>>, <<4, 8>>, <<5, 8>>, <<9>>, <<10>>, <<10, 1>> }

\* bytes cut off the end of a file whose last frame is of kind 1: the cut falls
\* in the trailing size, in the payload, in the timestamp, in the type, in the
\* leading size
Cuts == {2, 4, 6, 14, 18, 22}

RECURSIVE Concat(_)
Concat(ks) ==
    IF ks = <<>> THEN <<>> ELSE FrameKinds[Head(ks)] \o Concat(Tail(ks))

KindLists ==
    UNION { [1..n -> Common] : n \in 0..MaxFrames } \cup Special

\* a file of the catalogue is named by the kinds of its frames and the number
\* of bytes cut off its end
StreamIds ==
    { <<ks, c>> \in KindLists \X ({0} \cup Cuts) :
        c = 0 \/ (ks # <<>> /\ ks[Len(ks)] = 1) }

\* the 32-bit values written as the two halves of a timestamp: 0, 9, 10,
\* 10000000, the low half of the last tick of the year 9999 and the one after
\* it, 2^32 - 1
LowWords ==
    { <<0, 0, 0, 0>>, <<9, 0, 0, 0>>, <<10, 0, 0, 0>>, <<128, 150, 152, 0>>,
      <<255, 63, 192, 209>>, <<0, 64, 192, 209>>, <<255, 255, 255, 255>> }

\* 0, 1, 2, the high half of the last tick of the year 9999 and the one after
\* it, 2^32 - 1
HighWords ==
    { <<0, 0, 0, 0>>, <<1, 0, 0, 0>>, <<2, 0, 0, 0>>, <<94, 90, 200, 36>>,
      <<95, 90, 200, 36>>, <<255, 255, 255, 255>> }

\* a file of one intact NME0 frame with the timestamp low, high; it is named
\* by the 8 bytes of the timestamp and -1
TimeIds == { <<low \o high, -1>> : low \in LowWords, high \in HighWords }

\* (f @@ <<>> is f written out as a table, so that a file is built only once)
Streams ==
    [ id \in StreamIds \cup TimeIds |->
        IF id[2] = -1 THEN pack_l(16) \o NME0 \o id[1] \o Pad(4) \o pack_l(16)
        ELSE IF id[2] = 0 THEN Concat(id[1])
        ELSE SubSeq(Concat(id[1]), 1, Len(Concat(id[1])) - id[2]) ] @@ <<>>

\* the bytes of the open file
Data == Streams[sid]

(***************************************************************************)
(* The byte cursor (BufferedReader): a read returns what is left when less *)
(* than k bytes remain, a seek before byte 0 raises OSError, a seek past   *)
(* the end is accepted and later reads return nothing.                     *)
(***************************************************************************)
\* v computed once and handed to F (a local variable of the code)
With(v, F(_)) == CHOOSE r \in { F(x) : x \in {v} } : TRUE

_read_bytes(D, p, k) ==
    IF p >= Len(D) \/ k <= 0 THEN <<>> ELSE SubSeq(D, p + 1, Min(p + k, Len(D)))

at_eof(D, p) == p = Len(D)

_read_dgram_size(D, p) ==
    With(_read_bytes(D, p, 4), LAMBDA buf :
        IF Len(buf) # 4
        THEN [exc |-> "DatagramReadError", pos |-> p, val |-> 0]
        ELSE [exc |-> "none", pos |-> p + 4, val |-> unpack_l(buf)])

_read_timestamp(D, p) ==
    With(_read_bytes(D, p, 8), LAMBDA buf :
        IF Len(buf) # 8
        THEN IF at_eof(D, p + Len(buf))
             THEN [exc |-> "SimradEOF", pos |-> p + Len(buf), low |-> NoDate, high |-> NoDate]
             ELSE [exc |-> "DatagramReadError", pos |-> p, low |-> NoDate, high |-> NoDate]
        ELSE [exc |-> "none", pos |-> p + 8,
              low |-> unpack_L(SubSeq(buf, 1, 4)), high |-> unpack_L(SubSeq(buf, 5, 8))])

\* the header dict; exc and pos are the exception raised and the byte position
\* the call leaves
Header(e, p, size, type, low, high) ==
    [exc |-> e, pos |-> p, size |-> size, type |-> type, low_date |-> low,
     high_date |-> high, bytes_read |-> size + 20, channel |-> <<>>,
     timestamp |-> <<>>]

NoHeader == Header("None", 0, 0, <<>>, NoDate, NoDate)

\* _read_dgram_header that re-raises the short read of the size as it is
header_reraise(D, p) ==
    With(_read_dgram_size(D, p), LAMBDA s :
        IF s.exc # "none" THEN Header(s.exc, s.pos, 0, <<>>, NoDate, NoDate)
        ELSE With(_read_bytes(D, s.pos, 4), LAMBDA buf :
            IF Len(buf) # 4
            THEN IF at_eof(D, s.pos + Len(buf))
                 THEN Header("SimradEOF", s.pos + Len(buf), 0, <<>>, NoDate, NoDate)
                 ELSE Header("DatagramReadError", s.pos, 0, <<>>, NoDate, NoDate)
            ELSE With(_read_timestamp(D, s.pos + 4), LAMBDA t :
                IF t.exc # "none"
                THEN Header(t.exc, t.pos, 0, <<>>, NoDate, NoDate)
                ELSE Header("none", t.pos, s.val, buf, t.low, t.high))))

_read_dgram_header(D, p) ==
    With(_read_dgram_size(D, p), LAMBDA s :
        IF s.exc # "none"
        THEN Header(IF at_eof(D, s.pos) THEN "SimradEOF" ELSE s.exc, s.pos, 0, <<>>, NoDate, NoDate)
        ELSE With(_read_bytes(D, s.pos, 4), LAMBDA buf :
            IF Len(buf) # 4
            THEN IF at_eof(D, s.pos + Len(buf))
                 THEN Header("SimradEOF", s.pos + Len(buf), 0, <<>>, NoDate, NoDate)
                 ELSE Header("DatagramReadError", s.pos, 0, <<>>, NoDate, NoDate)
            ELSE With(_read_timestamp(D, s.pos + 4), LAMBDA t :
                IF t.exc # "none"
                THEN Header(t.exc, t.pos, 0, <<>>, NoDate, NoDate)
                ELSE Header("none", t.pos, s.val, buf, t.low, t.high))))

(***************************************************************************)
(* _find_next_datagram: the search for the next known datagram type.       *)
(***************************************************************************)
\* FirstMatch that takes the last match of the buffer instead of the first
LastMatch(buf) ==
    With({ i \in 1..(Len(buf) - 2) : <<buf[i], buf[i + 1], buf[i + 2]>> \in re_pattern },
         LAMBDA M : IF M = {} THEN -1 ELSE (CHOOSE i \in M : \A j \in M : i >= j) - 1)

\* re.finditer(re_pattern, buf): the start of the leftmost match, -1 if none
FirstMatch(buf) ==
    With({ i \in 1..(Len(buf) - 2) : <<buf[i], buf[i + 1], buf[i + 2]>> \in re_pattern },
         LAMBDA M : IF M = {} THEN -1 ELSE (CHOOSE i \in M : \A j \in M : i <= j) - 1)

RECURSIVE find_loop(_, _, _, _)
find_loop(D, p, current_file_pos, chunk) ==
    LET buf == _read_bytes(D, p, chunk)
        m == FirstMatch(buf)
    IN  IF Len(buf) = 0 THEN [exc |-> "SimradEOF", pos |-> p]
        ELSE IF m >= 0
        THEN IF current_file_pos + m - 4 < 0
             THEN [exc |-> "OSError", pos |-> p + Len(buf)]
             ELSE [exc |-> "none", pos |-> current_file_pos + m - 4]
        ELSE find_loop(D, p + Len(buf), current_file_pos + chunk, chunk)

\* _find_next_datagram without the 4 bytes of the size subtracted
find_at_tag(D, p) ==
    With(find_loop(D, p, p, search_buf_bytes), LAMBDA f :
        IF f.exc = "none" THEN [f EXCEPT !.pos = f.pos + 4] ELSE f)

_find_next_datagram(D, p) == find_loop(D, p, p, search_buf_bytes)

(***************************************************************************)
(* _read_next_dgram and read(1).                                           *)
(***************************************************************************)
\* DGRAM_TYPE_KEY: the 3-character keys of the parser table
DGRAM_TYPE_KEY ==
    { <<82, 65, 87>>, <<67, 79, 78>>, <<84, 65, 71>>, <<78, 77, 69>>, <<66, 79, 84>>,
      <<68, 69, 80>>, <<88, 77, 76>>, <<70, 73, 76>>, <<77, 82, 85>>, <<73, 68, 88>> }

\* a parser: an entry of DGRAM_TYPE_KEY, or SimradUnknownParser(dgram_type)
Parser(class, key) == [class |-> class, key |-> key]

\* parser.from_string(raw_datagram_string, bytes_read): the decoders are not
\* part of this file; a decoder returns a datagram that keeps what it was
\* handed (the parser, the raw datagram: its type, its length and where it
\* starts in the file, and bytes_read) and does not fail the read
from_string(parser, type, n, bytes_read, start) ==
    [parser |-> parser, type |-> type, n |-> n, bytes_read |-> bytes_read,
     start |-> start]

\* _convert_raw_datagram that looks the whole 4-character type up in the table
convert_by_full_type(type, n, bytes_read, start) ==
    IF type \in DGRAM_TYPE_KEY
    THEN from_string(Parser("DGRAM_TYPE_KEY", type), type, n, bytes_read, start)
    ELSE from_string(Parser("SimradUnknownParser", SubSeq(type, 1, 3)), type, n,
                     bytes_read, start)

_convert_raw_datagram(type, n, bytes_read, start) ==
    With(SubSeq(type, 1, 3), LAMBDA dgram_type :
        IF dgram_type \in DGRAM_TYPE_KEY
        THEN from_string(Parser("DGRAM_TYPE_KEY", dgram_type), type, n, bytes_read, start)
        ELSE from_string(Parser("SimradUnknownParser", dgram_type), type, n, bytes_read,
                         start))

NoDgram ==
    [parser |-> Parser("", <<>>), type |-> <<>>, n |-> 0, bytes_read |-> 0, start |-> 0]

\* the outcome of a forward step: the exception raised ("none": it returned),
\* the byte position left, the increment of _current_dgram_offset, the value
\* returned and the number of _find_next_datagram calls made
Step(e, p, inc, res, finds) ==
    [exc |-> e, pos |-> p, inc |-> inc, res |-> res, finds |-> finds]

RECURSIVE _read_next_dgram(_, _, _, _)

\* read_retry with the counter also incremented for the datagram given up
read_retry_counting(D, from, finds) ==
    With(_find_next_datagram(D, from), LAMBDA f :
        IF f.exc # "none" THEN Step(f.exc, f.pos, 0, NoDgram, finds + 1)
        ELSE With(_read_next_dgram(D, f.pos, NoHeader, finds + 1), LAMBDA r :
                IF r.exc = "none" THEN [r EXCEPT !.inc = r.inc + 1] ELSE r))

\* read_retry with a budget of one search for a call: the second one raises
read_retry_budget(D, from, finds) ==
    IF finds >= 1 THEN Step("RecursionError", from, 0, NoDgram, finds)
    ELSE With(_find_next_datagram(D, from), LAMBDA f :
        IF f.exc # "none" THEN Step(f.exc, f.pos, 0, NoDgram, finds + 1)
        ELSE _read_next_dgram(D, f.pos, NoHeader, finds + 1))

\* "self._find_next_datagram(); return self._read_next_dgram()"
read_retry(D, from, finds) ==
    With(_find_next_datagram(D, from), LAMBDA f :
        IF f.exc # "none" THEN Step(f.exc, f.pos, 0, NoDgram, finds + 1)
        ELSE _read_next_dgram(D, f.pos, NoHeader, finds + 1))

\* read_payload without the seek back to old_file_pos when the trailing size
\* is cut short
read_payload_no_rollback(D, h, at, old_file_pos, finds) ==
    IF h.size < 16 THEN read_retry(D, at, finds)
    ELSE With(_read_bytes(D, at, h.size - 12), LAMBDA rest :
        IF 12 + Len(rest) < h.size THEN read_retry(D, at + Len(rest), finds)
        ELSE With(_read_dgram_size(D, at + Len(rest)), LAMBDA c :
            IF c.exc # "none" THEN Step(c.exc, c.pos, 0, NoDgram, finds)
            ELSE IF h.size # c.val THEN read_retry(D, c.pos, finds)
            ELSE Step("none", c.pos, 1,
                      _convert_raw_datagram(h.type, 12 + Len(rest), 12 + Len(rest) + 20,
                                            old_file_pos),
                      finds)))

\* _read_next_dgram from "basic sanity check on size" on: h is the header, at
\* the byte position after it
read_payload(D, h, at, old_file_pos, finds) ==
    IF h.size < 16 THEN read_retry(D, at, finds)
    ELSE With(_read_bytes(D, at, h.size - 12), LAMBDA rest :
        IF 12 + Len(rest) < h.size THEN read_retry(D, at + Len(rest), finds)
        ELSE With(_read_dgram_size(D, at + Len(rest)), LAMBDA c :
            IF c.exc # "none" THEN Step(c.exc, old_file_pos, 0, NoDgram, finds)
            ELSE IF h.size # c.val THEN read_retry(D, c.pos, finds)
            ELSE Step("none", c.pos, 1,
                      _convert_raw_datagram(h.type, 12 + Len(rest), 12 + Len(rest) + 20,
                                            old_file_pos),
                      finds)))

_read_next_dgram(D, p, header, finds) ==
    IF header.exc = "None"
    THEN With(_read_dgram_header(D, p), LAMBDA h :
            IF h.exc # "none" THEN Step(h.exc, h.pos, 0, NoDgram, finds)
            ELSE read_payload(D, h, h.pos, p, finds))
    ELSE read_payload(D, header, p, p - 16, finds)

\* read(1, header): any exception raised at the end of the file becomes SimradEOF
read(D, p, header) ==
    With(_read_next_dgram(D, p, header, 0), LAMBDA r :
        IF r.exc # "none" /\ at_eof(D, r.pos) THEN [r EXCEPT !.exc = "SimradEOF"] ELSE r)

(***************************************************************************)
(* iter_dgrams and readall.  A generator that raises StopIteration ends    *)
(* silently under the interpreters before Python 3.7 and raises            *)
(* RuntimeError from 3.7 on (PEP 479): generator_stop says which of the    *)
(* two the interpreter does.                                               *)
(***************************************************************************)
\* what a loop over the generator is left with: the exception that reaches
\* the caller, the byte position, the datagram counter and the datagrams
\* yielded
Yielded(e, p, i, out) == [exc |-> e, pos |-> p, idx |-> i, out |-> out]

\* "while True: new_dgram = next(self) ... yield new_dgram", up to the
\* "raise StopIteration" of the except clause
RECURSIVE iter_loop(_, _, _, _)
iter_loop(D, p, i, out) ==
    With(read(D, p, NoHeader), LAMBDA r :
        IF r.exc = "none" THEN iter_loop(D, r.pos, i + r.inc, Append(out, r.res))
        ELSE Yielded("StopIteration", r.pos, i, out))

iter_dgrams(D, p, i, generator_stop) ==
    With(iter_loop(D, p, i, <<>>), LAMBDA g :
        [g EXCEPT !.exc = IF generator_stop THEN "RuntimeError" ELSE "none"])

\* seek(0, SEEK_SET), then the list is filled from iter_dgrams() and
\* returned when the loop ends without an exception
readall(D, p, i, generator_stop) ==
    With(iter_dgrams(D, 0, 0, generator_stop), LAMBDA g :
        IF g.exc # "none" THEN [g EXCEPT !.out = <<>>] ELSE g)

(***************************************************************************)
(* peek and get_header.                                                    *)
(***************************************************************************)
\* struct.unpack of the channel field raises struct.error when the read came
\* back short, before any rewind is done
lookahead(D, h, n, rewind) ==
    With(_read_bytes(D, h.pos, n), LAMBDA buf :
        IF Len(buf) # n
        THEN [h EXCEPT !.exc = "struct.error", !.pos = h.pos + Len(buf)]
        ELSE [h EXCEPT !.channel = buf,
                       !.pos = IF rewind THEN h.pos + n - (16 + n) ELSE h.pos + n - n])

peek(D, p, rewind) ==
    With(_read_dgram_header(D, p), LAMBDA dgram_header :
        IF dgram_header.exc # "none" THEN dgram_header
        ELSE IF dgram_header.type = RAW0 THEN lookahead(D, dgram_header, 2, rewind)
        ELSE IF dgram_header.type = RAW3 \/ dgram_header.type = RAW4
             THEN lookahead(D, dgram_header, 128, rewind)
        ELSE IF rewind THEN [dgram_header EXCEPT !.pos = dgram_header.pos - 16]
        ELSE dgram_header)

\* long division of a number written in base-65536 digits, the low digit
\* first, by m (m below 2^15): the digits k, k - 1, .. 1 are still to be
\* divided and rem is what the digits above them left
RECURSIVE LongDiv(_, _, _, _)
LongDiv(x, m, k, rem) ==
    IF k = 0 THEN [q |-> <<>>, r |-> rem]
    ELSE With(LongDiv(x, m, k - 1, (rem * 65536 + x[k]) % m), LAMBDA lower :
            [q |-> Append(lower.q, (rem * 65536 + x[k]) \div m), r |-> lower.r])

\* x // m and x % m
Div(x, m) == LongDiv(x, m, Len(x), 0)

\* ((high_date << 32) + low_date) // 10
us_past_nt_epoch(low_date, high_date) == Div(low_date \o high_date, 10).q

\* datetime.timedelta(microseconds=us): days, seconds and microseconds with
\* 0 <= seconds < 86400 and 0 <= microseconds < 1000000
timedelta(us) ==
    With(Div(us, 1000), LAMBDA a :
    With(Div(a.q, 1000), LAMBDA b :
    With(Div(b.q, 60), LAMBDA c :
    With(Div(c.q, 60), LAMBDA d :
    With(Div(d.q, 24), LAMBDA e :
        [days |-> e.q, seconds |-> (e.r * 60 + d.r) * 60 + c.r,
         microseconds |-> b.r * 1000 + a.r])))))

\* (datetime.max - UTC_NT_EPOCH).days: 9999-12-31 is this many days after
\* 1601-01-01
MaxDays == 3067670

\* UTC_NT_EPOCH + delta: the datetime as days, seconds and microseconds after
\* 1601-01-01T00:00:00; a date after the year 9999 raises OverflowError
epoch_plus(delta) ==
    IF delta.days[3] # 0 \/ delta.days[4] # 0
       \/ delta.days[1] + 65536 * delta.days[2] > MaxDays
    THEN [exc |-> "OverflowError", days |-> 0, seconds |-> 0, microseconds |-> 0]
    ELSE [exc |-> "none", days |-> delta.days[1] + 65536 * delta.days[2],
          seconds |-> delta.seconds, microseconds |-> delta.microseconds]

get_header(D, p) ==
    With(peek(D, p, FALSE), LAMBDA dgram_header :
        IF dgram_header.exc # "none" THEN dgram_header
        ELSE With(epoch_plus(timedelta(us_past_nt_epoch(dgram_header.low_date,
                                                        dgram_header.high_date))),
                  LAMBDA timestamp :
            IF timestamp.exc # "none" THEN [dgram_header EXCEPT !.exc = timestamp.exc]
            ELSE [dgram_header EXCEPT !.timestamp = timestamp,
                                      !.bytes_read = dgram_header.size + 20]))

(***************************************************************************)
(* skip and skip_back.                                                     *)
(***************************************************************************)
\* "self._find_next_datagram()" and then the increment of the counter
skip_resync(D, from) ==
    With(_find_next_datagram(D, from), LAMBDA f :
        IF f.exc # "none" THEN Step(f.exc, f.pos, 0, NoDgram, 1)
        ELSE Step("none", f.pos, 1, NoDgram, 1))

\* skip from "if header['size'] < 16" on
skip_payload(D, h, at) ==
    IF h.size < 16 THEN skip_resync(D, at)
    ELSE With(_read_dgram_size(D, at + (h.size - 12)), LAMBDA c :
        IF c.exc # "none" THEN Step(c.exc, c.pos, 0, NoDgram, 0)
        ELSE IF h.size # c.val THEN skip_resync(D, c.pos)
        ELSE Step("none", c.pos, 1, NoDgram, 0))

skip(D, p, header) ==
    IF header.exc = "None"
    THEN With(_read_dgram_header(D, p), LAMBDA h :
            IF h.exc # "none" THEN Step(h.exc, h.pos, 0, NoDgram, 0)
            ELSE skip_payload(D, h, h.pos))
    ELSE skip_payload(D, header, p)

\* skip_back that steps back by bytes_read (size + 20) instead of size + 8
skip_back_by_bytes_read(D, p) ==
    IF p - 4 < 0 THEN Step("OSError", p, 0, NoDgram, 0)
    ELSE With(_read_dgram_size(D, p - 4), LAMBDA c :
        IF c.exc # "none" THEN Step(c.exc, c.pos, 0, NoDgram, 0)
        ELSE IF c.pos - (20 + c.val) < 0 THEN Step("TypeError", c.pos, 0, NoDgram, 0)
        ELSE With(_read_dgram_size(D, c.pos - (20 + c.val)), LAMBDA s :
            IF s.exc # "none" THEN Step(s.exc, s.pos, 0, NoDgram, 0)
            ELSE IF c.val # s.val THEN Step("TypeError", p, 0, NoDgram, 0)
            ELSE Step("none", s.pos - 4, -1, NoDgram, 0)))

\* "raise DatagramSizeError" names the class without its two required
\* arguments, so what reaches the caller is a TypeError
skip_back(D, p) ==
    IF p - 4 < 0 THEN Step("OSError", p, 0, NoDgram, 0)
    ELSE With(_read_dgram_size(D, p - 4), LAMBDA c :
        IF c.exc # "none" THEN Step(c.exc, c.pos, 0, NoDgram, 0)
        ELSE IF c.pos - (8 + c.val) < 0 THEN Step("TypeError", c.pos, 0, NoDgram, 0)
        ELSE With(_read_dgram_size(D, c.pos - (8 + c.val)), LAMBDA s :
            IF s.exc # "none" THEN Step(s.exc, s.pos, 0, NoDgram, 0)
            ELSE IF c.val # s.val THEN Step("TypeError", p, 0, NoDgram, 0)
            ELSE Step("none", s.pos - 4, -1, NoDgram, 0)))

(***************************************************************************)
(* _set_total_dgram_count, seek and reset.  The reader is the record       *)
(* [exc, pos, idx, total]; total = -1 stands for None.                     *)
(***************************************************************************)
Reader(e, p, i, t) == [exc |-> e, pos |-> p, idx |-> i, total |-> t]

RECURSIVE count_loop(_, _, _)

\* count_loop that also counts the skip() that raised
count_loop_inclusive(D, p, i) ==
    With(skip(D, p, NoHeader), LAMBDA s :
        IF s.exc = "none" THEN count_loop(D, s.pos, i + 1)
        ELSE IF s.exc \in {"DatagramReadError", "SimradEOF"}
             THEN Reader("none", s.pos, i + 1, i + 1)
        ELSE Reader(s.exc, s.pos, i, -1))

count_loop(D, p, i) ==
    With(skip(D, p, NoHeader), LAMBDA s :
        IF s.exc = "none" THEN count_loop(D, s.pos, i + 1)
        ELSE IF s.exc \in {"DatagramReadError", "SimradEOF"} THEN Reader("none", s.pos, i, i)
        ELSE Reader(s.exc, s.pos, i, -1))

\* _set_total_dgram_count without the check that the count is already set,
\* counting from where the reader stands
set_total_recount(D, p, i, t) ==
    With(count_loop(D, p, 0), LAMBDA c :
        IF c.exc # "none" THEN c ELSE Reader("none", p, i, c.total))

_set_total_dgram_count(D, p, i, t) ==
    IF t # -1 THEN Reader("ValueError", p, i, t)
    ELSE With(count_loop(D, 0, 0), LAMBDA c :
            IF c.exc # "none" THEN c ELSE Reader("none", p, i, c.total))

RECURSIVE skips(_, _, _, _, _)
skips(D, p, i, t, k) ==
    IF k = 0 THEN Reader("none", p, i, t)
    ELSE With(skip(D, p, NoHeader), LAMBDA s :
            IF s.exc # "none" THEN Reader(s.exc, s.pos, i, t)
            ELSE skips(D, s.pos, i + s.inc, t, k - 1))

RECURSIVE skip_backs(_, _, _, _, _)
skip_backs(D, p, i, t, k) ==
    IF k = 0 THEN Reader("none", p, i, t)
    ELSE With(skip_back(D, p), LAMBDA s :
            IF s.exc # "none" THEN Reader(s.exc, s.pos, i, t)
            ELSE skip_backs(D, s.pos, i + s.inc, t, k - 1))

\* seek_origin that leaves _current_dgram_offset alone on SEEK_SET
seek_origin_keep_index(D, p, i, t, offset, whence) ==
    IF whence = 0
    THEN IF offset < 0 THEN Reader("ValueError", p, i, t) ELSE Reader("none", 0, i, t)
    ELSE IF whence = 2
    THEN IF offset > 0 THEN Reader("ValueError", p, i, t)
         ELSE With(_set_total_dgram_count(D, p, i, t), LAMBDA c :
                IF c.exc \in {"none", "ValueError"}
                THEN Reader("none", Len(D), c.total, c.total)
                ELSE c)
    ELSE IF whence = 1 THEN Reader("none", p, i, t)
    ELSE Reader("ValueError", p, i, t)

\* seek_origin that rewinds before it looks at the offset
seek_origin_rewind_first(D, p, i, t, offset, whence) ==
    IF whence = 0
    THEN IF offset < 0 THEN Reader("ValueError", 0, 0, t) ELSE Reader("none", 0, 0, t)
    ELSE IF whence = 2
    THEN IF offset > 0 THEN Reader("ValueError", p, i, t)
         ELSE With(_set_total_dgram_count(D, p, i, t), LAMBDA c :
                IF c.exc \in {"none", "ValueError"}
                THEN Reader("none", Len(D), c.total, c.total)
                ELSE c)
    ELSE IF whence = 1 THEN Reader("none", p, i, t)
    ELSE Reader("ValueError", p, i, t)

\* the first half of seek: the reader placed at the origin
\* whence: 0 SEEK_SET, 1 SEEK_CUR, 2 SEEK_END
seek_origin(D, p, i, t, offset, whence) ==
    IF whence = 0
    THEN IF offset < 0 THEN Reader("ValueError", p, i, t) ELSE Reader("none", 0, 0, t)
    ELSE IF whence = 2
    THEN IF offset > 0 THEN Reader("ValueError", p, i, t)
         ELSE With(_set_total_dgram_count(D, p, i, t), LAMBDA c :
                IF c.exc \in {"none", "ValueError"}
                THEN Reader("none", Len(D), c.total, c.total)
                ELSE c)
    ELSE IF whence = 1 THEN Reader("none", p, i, t)
    ELSE Reader("ValueError", p, i, t)

seek(D, p, i, t, offset, whence) ==
    With(seek_origin(D, p, i, t, offset, whence), LAMBDA placed :
        IF placed.exc # "none" THEN placed
        ELSE IF offset > 0 THEN skips(D, placed.pos, placed.idx, placed.total, offset)
        ELSE IF offset < 0
             THEN skip_backs(D, placed.pos, placed.idx, placed.total, -offset)
        ELSE placed)

\* reset that keeps _total_dgram_count
reset_keep_total(D, p, i, t) == Reader("none", 0, 0, t)

reset(D, p, i, t) == Reader("none", 0, 0, -1)

(***************************************************************************)
(* The reader as a state machine: sid is the file opened, pos the byte     *)
(* position, idx _current_dgram_offset, total _total_dgram_count, held the *)
(* header get_header() gave the caller and that the next read or skip must *)
(* be passed; last records the call that was made last.                    *)
(***************************************************************************)
Call(op, e, res, hdr, finds) ==
    [op |-> op, exc |-> e, res |-> res, hdr |-> hdr, finds |-> finds, out |-> <<>>]

Init ==
    /\ sid \in StreamIds
    /\ pos = 0
    /\ idx = 0
    /\ total = -1
    /\ held = NoHeader
    /\ last = Call("open", "none", NoDgram, NoHeader, 0)

\* read(1) / next(): with the header when get_header() was called before
ReadNext ==
    \E r \in { read(Data, pos, held) } :
    /\ pos' = r.pos
    /\ idx' = idx + r.inc
    /\ held' = NoHeader
    /\ last' = Call("read", r.exc, r.res, held, r.finds)
    /\ UNCHANGED <<sid, total>>

Skip ==
    \E r \in { skip(Data, pos, held) } :
    /\ pos' = r.pos
    /\ idx' = idx + r.inc
    /\ held' = NoHeader
    /\ last' = Call("skip", r.exc, NoDgram, held, r.finds)
    /\ UNCHANGED <<sid, total>>

SkipBack ==
    \E r \in { skip_back(Data, pos) } :
    /\ held = NoHeader
    /\ idx + r.inc >= -MaxDrift
    /\ pos' = r.pos
    /\ idx' = idx + r.inc
    /\ last' = Call("skip_back", r.exc, NoDgram, NoHeader, 0)
    /\ UNCHANGED <<sid, total, held>>

Peek ==
    \E h \in { peek(Data, pos, TRUE) } :
    /\ held = NoHeader
    /\ pos' = h.pos
    /\ last' = Call("peek", h.exc, NoDgram, h, 0)
    /\ UNCHANGED <<sid, idx, total, held>>

GetHeader ==
    \E h \in { get_header(Data, pos) } :
    /\ held = NoHeader
    /\ pos' = h.pos
    /\ held' = IF h.exc = "none" THEN h ELSE NoHeader
    /\ last' = Call("get_header", h.exc, NoDgram, h, 0)
    /\ UNCHANGED <<sid, idx, total>>

SeekTo(offset, whence) ==
    \E r \in { seek(Data, pos, idx, total, offset, whence) } :
    /\ held = NoHeader
    /\ r.idx >= -MaxDrift
    /\ pos' = r.pos
    /\ idx' = r.idx
    /\ total' = r.total
    /\ last' = Call("seek", r.exc, NoDgram, NoHeader, 0)
    /\ UNCHANGED <<sid, held>>

\* whence 3 stands for every value that is none of SEEK_SET, SEEK_CUR, SEEK_END
Seek ==
    \E offset \in (-MaxSeek)..MaxSeek, whence \in 0..3 : SeekTo(offset, whence)

\* reset() takes no header: a header the caller holds is of no use after it
Reset ==
    \E r \in { reset(Data, pos, idx, total) } :
    /\ pos' = r.pos
    /\ idx' = r.idx
    /\ total' = r.total
    /\ held' = NoHeader
    /\ last' = Call("reset", r.exc, NoDgram, NoHeader, 0)
    /\ UNCHANGED sid

Next == ReadNext \/ Skip \/ SkipBack \/ Peek \/ GetHeader \/ Seek \/ Reset

Spec == Init /\ [][Next]_vars

\* a loop over iter_dgrams() that takes every datagram it yields
IterDgrams ==
    \E generator_stop \in BOOLEAN :
    \E g \in { iter_dgrams(Data, pos, idx, generator_stop) } :
    /\ held = NoHeader
    /\ pos' = g.pos
    /\ idx' = g.idx
    /\ last' = [Call("iter_dgrams", g.exc, NoDgram, NoHeader, 0) EXCEPT !.out = g.out]
    /\ UNCHANGED <<sid, total, held>>

ReadAll ==
    \E generator_stop \in BOOLEAN :
    \E g \in { readall(Data, pos, idx, generator_stop) } :
    /\ held = NoHeader
    /\ pos' = g.pos
    /\ idx' = g.idx
    /\ last' = [Call("readall", g.exc, NoDgram, NoHeader, 0) EXCEPT !.out = g.out]
    /\ UNCHANGED <<sid, total, held>>

\* a file with a timestamp of the list is opened
InitTime ==
    /\ sid \in TimeIds
    /\ pos = 0
    /\ idx = 0
    /\ total = -1
    /\ held = NoHeader
    /\ last = Call("open", "none", NoDgram, NoHeader, 0)

\* the header of a datagram is taken and the datagram read
NextTime == GetHeader \/ ReadNext \/ Reset

SpecTime == InitTime /\ [][NextTime]_vars

\* the calls that read forward, one datagram or all of them
NextIter == ReadNext \/ Skip \/ IterDgrams \/ ReadAll \/ Reset

SpecIter == Init /\ [][NextIter]_vars

\* the calls that move by datagrams or look ahead with a rewind
NextNav == ReadNext \/ Skip \/ SkipBack \/ Peek \/ Seek \/ Reset

SpecNav == Init /\ [][NextNav]_vars

(***************************************************************************)
(* The file as the format lays it out, read off the bytes.                 *)
(***************************************************************************)
\* the 32-bit size written at byte s
SizeAt(D, s) == unpack_l(SubSeq(D, s + 1, s + 4))

\* an intact frame starts at byte s: its leading size is at least 16, the
\* frame lies inside the file and its trailing size repeats the leading one
IntactAt(D, s) ==
    /\ s >= 0
    /\ s + 4 <= Len(D)
    /\ SizeAt(D, s) >= 16
    /\ s + SizeAt(D, s) + 8 <= Len(D)
    /\ SizeAt(D, s + SizeAt(D, s) + 4) = SizeAt(D, s)

\* the on-disk length of the frame at s: its size and the two size fields
FrameBytes(D, s) == SizeAt(D, s) + 8

\* the frame starts from byte s on, the end of the file last; <<-1>> ends the
\* list where the bytes are no intact frame
RECURSIVE Boundaries(_, _)
Boundaries(D, s) ==
    IF s = Len(D) THEN <<s>>
    ELSE IF IntactAt(D, s) THEN <<s>> \o Boundaries(D, s + FrameBytes(D, s))
    ELSE <<-1>>

\* only intact frames, ending exactly at a frame boundary
WellFormed(D) == With(Boundaries(D, 0), LAMBDA b : b[Len(b)] = Len(D))

\* the start of frame k of a well-formed file (the end of the file for k = N)
FrameStart(D, k) ==
    With(Boundaries(D, 0), LAMBDA b : IF k + 1 \in 1..Len(b) THEN b[k + 1] ELSE -1)

\* the byte at which the forward step of this state starts its frame
ReadStart == IF held = NoHeader THEN pos ELSE pos - 16

(***************************************************************************)
(* C1..C10                                                                 *)
(***************************************************************************)
\* C1: the bytes_read reported with a datagram read_next() returned is the
\* frame's length on disk, so the byte offset after the read is the frame's
\* start plus bytes_read (and get_header() reports the same number).
C1_BytesReadIsFrameLength ==
    /\ (last.op = "read" /\ last.exc = "none")
          => pos = last.res.start + last.res.bytes_read
    /\ (last.op = "get_header" /\ last.exc = "none" /\ IntactAt(Data, pos - 16))
          => last.hdr.bytes_read = FrameBytes(Data, pos - 16)

\* C2: on a well-formed file, after any finished sequence of read, skip,
\* skip_back, peek (with rewind), seek and reset calls, the byte offset is the
\* start of the frame whose ordinal is the datagram counter.
C2_OffsetMatchesIndex ==
    WellFormed(Data) => pos = FrameStart(Data, idx)

\* C3: a read_next() or skip() that returns adds exactly 1 to the datagram
\* counter, however often it resynchronized, and one that raises leaves the
\* counter as it was.
C3_IndexStep ==
    [][ (last'.op \in {"read", "skip"} /\ (ReadNext \/ Skip)) =>
            IF last'.exc = "none" THEN idx' = idx + 1 ELSE idx' = idx ]_vars

\* C3 witness: a read that returned after it had resynchronized
C3_Witness ==
    /\ last.op \in {"read", "skip"}
    /\ last.exc = "none"
    /\ last.finds >= 1
    /\ idx = 1

\* C4: from the same state skip() ends where read_next() ends: the same byte
\* offset, the same datagram counter, failing in the same cases.
C4_SkipIsReadNext ==
    [][ ReadNext =>
            With(skip(Data, pos, held), LAMBDA s :
                /\ pos' = s.pos
                /\ idx' = idx + s.inc
                /\ (last'.exc = "none") <=> (s.exc = "none")) ]_vars

\* C5: where a complete envelope (16 bytes) can be read, peek with rewind
\* returns, returns the same header when called again, and leaves the byte
\* offset and the datagram counter as they were.
C5_PeekRewinds ==
    [][ (Peek /\ pos + 16 <= Len(Data)) =>
            /\ last'.exc = "none"
            /\ pos' = pos
            /\ idx' = idx
            /\ peek(Data, pos', TRUE) = last'.hdr ]_vars

\* C6: get_header() and then read(1, header) or skip(header) is the same as
\* read(1) or skip() called directly: both paths return the same, at the same
\* byte offset and datagram counter (and where get_header() raises, the direct
\* call raises too).
C6_HeaderThenRead ==
    [][ GetHeader =>
            IF last'.exc = "none"
            THEN /\ read(Data, pos', held') = read(Data, pos, NoHeader)
                 /\ skip(Data, pos', held') = skip(Data, pos, NoHeader)
            ELSE /\ read(Data, pos, NoHeader).exc # "none"
                 /\ skip(Data, pos, NoHeader).exc # "none" ]_vars

\* the 4 bytes of the type of the frame at byte s
TypeAt(D, s) == SubSeq(D, s + 5, s + 8)

\* a file of two frames: the first with a trailing size that differs from its
\* leading size, the second intact and of a type the search looks for
CorruptThenGood(D) ==
    /\ Len(D) >= 24
    /\ SizeAt(D, 0) >= 16
    /\ SizeAt(D, 0) + 8 <= Len(D)
    /\ SizeAt(D, SizeAt(D, 0) + 4) # SizeAt(D, 0)
    /\ IntactAt(D, SizeAt(D, 0) + 8)
    /\ SizeAt(D, 0) + 8 + FrameBytes(D, SizeAt(D, 0) + 8) = Len(D)
    /\ SubSeq(TypeAt(D, SizeAt(D, 0) + 8), 1, 3) \in re_pattern

\* C7: on a file of one frame with a corrupted trailing size and one intact
\* frame of a searched type, the first read(1) from byte 0 returns the second
\* frame (the first is dropped, the counter goes up by 1) and the read(1) at
\* the end of the file raises SimradEOF.
C7_CorruptionRecovery ==
    [][ (held = NoHeader /\ last'.op = "read" /\ CorruptThenGood(Data) /\ ReadNext) =>
            /\ pos = 0 =>
                  /\ last'.exc = "none"
                  /\ last'.finds = 1
                  /\ last'.res.start = SizeAt(Data, 0) + 8
                  /\ last'.res.type = TypeAt(Data, SizeAt(Data, 0) + 8)
                  /\ pos' = Len(Data)
                  /\ idx' = idx + 1
            /\ pos = Len(Data) =>
                  /\ last'.exc = "SimradEOF"
                  /\ pos' = pos
                  /\ idx' = idx ]_vars

\* C7 witness: both reads were made, the second raised SimradEOF
C7_Witness ==
    /\ CorruptThenGood(Data)
    /\ last.op = "read"
    /\ last.exc = "SimradEOF"
    /\ pos = Len(Data)
    /\ idx = 1

\* the frame at s has its envelope and payload in the file and fewer than 4
\* bytes of trailing size
TrailerCutAt(D, s) ==
    /\ s >= 0
    /\ s + 16 <= Len(D)
    /\ SizeAt(D, s) >= 16
    /\ s + 4 + SizeAt(D, s) <= Len(D)
    /\ Len(D) < s + SizeAt(D, s) + 8

\* C8: a read(1) that has read envelope and payload of a frame and finds the
\* trailing size cut short leaves the byte offset at the start of that frame and
\* the counter as it was, and raises DatagramReadError, not SimradEOF; after
\* a resynchronization the frame is the one the retry read.
C8_CutTrailerRollsBack ==
    [][ (last'.op = "read" /\ ReadNext) =>
            /\ TrailerCutAt(Data, ReadStart) =>
                  /\ last'.exc = "DatagramReadError"
                  /\ pos' = ReadStart
                  /\ idx' = idx
            /\ (last'.exc = "DatagramReadError" /\ last'.finds >= 1) =>
                  /\ TrailerCutAt(Data, pos')
                  /\ pos' > ReadStart
                  /\ idx' = idx ]_vars

\* C8 witness: a read raised on a cut trailing size and rolled back
C8_Witness ==
    /\ last.op = "read"
    /\ last.exc = "DatagramReadError"
    /\ TrailerCutAt(Data, pos)

\* C9: at the end of the file read(1) and skip() raise SimradEOF and leave byte
\* offset and datagram counter as they were.
C9_EndOfStream ==
    [][ (held = NoHeader /\ pos = Len(Data) /\ last'.op \in {"read", "skip"}
            /\ (ReadNext \/ Skip)) =>
            /\ last'.exc = "SimradEOF"
            /\ pos' = pos
            /\ idx' = idx ]_vars

\* C9 witness: a read or skip at the end of a well-formed file with frames
C9_Witness ==
    /\ WellFormed(Data)
    /\ Len(Data) > 0
    /\ pos = Len(Data)
    /\ idx = Len(Boundaries(Data, 0)) - 1
    /\ last.op \in {"read", "skip"}
    /\ last.exc = "SimradEOF"

\* an intact frame ends at byte p
EndsIntact(D, p) ==
    /\ p >= 24
    /\ p <= Len(D)
    /\ IntactAt(D, p - 8 - SizeAt(D, p - 4))
    /\ SizeAt(D, p - 8 - SizeAt(D, p - 4)) = SizeAt(D, p - 4)

\* C10: at the end of an intact frame skip_back() returns, leaves the byte
\* offset at the first byte of that frame and takes 1 off the counter; a
\* skip() over an intact frame is undone by the skip_back() that follows.
C10_SkipBack ==
    [][ /\ (last'.op = "skip_back" /\ EndsIntact(Data, pos) /\ SkipBack) =>
              /\ last'.exc = "none"
              /\ pos' = pos - 8 - SizeAt(Data, pos - 4)
              /\ idx' = idx - 1
        /\ (held = NoHeader /\ last'.op = "skip" /\ IntactAt(Data, pos) /\ Skip) =>
              With(skip_back(Data, pos'), LAMBDA b :
                  /\ last'.exc = "none"
                  /\ b.exc = "none"
                  /\ b.pos = pos
                  /\ idx' + b.inc = idx) ]_vars

\* C10 witness: a skip_back that returned, at the start of an intact frame
C10_Witness ==
    /\ last.op = "skip_back"
    /\ last.exc = "none"
    /\ IntactAt(Data, pos)
    /\ EndsIntact(Data, pos + FrameBytes(Data, pos))

(***************************************************************************)
(* C11..C20                                                                *)
(***************************************************************************)
\* C11: a skip_back() that raises, for whatever reason, leaves the byte offset
\* and the datagram counter as they were before the call.
C11_SkipBackFailureRestores ==
    [][ (last'.op = "skip_back" /\ last'.exc # "none" /\ SkipBack) =>
            /\ pos' = pos
            /\ idx' = idx ]_vars

\* the frame starts of every file of the catalogue, and the files that are
\* well-formed
Starts == [ id \in StreamIds |-> Boundaries(Streams[id], 0) ] @@ <<>>

WellFormedIds == { id \in DOMAIN Starts : Starts[id][Len(Starts[id])] # -1 }

\* the number of frames of the open well-formed file and the start of frame k
NFrames == Len(Starts[sid]) - 1

StartOf(k) == Starts[sid][k + 1]

\* C12: on a well-formed file of N frames seek(k, SEEK_SET) with 0 <= k <= N,
\* called in any state the reader can be in, returns with the byte offset at
\* the start of frame k (the end of the file for k = N) and the datagram
\* counter k.
C12_SeekFromStart ==
    sid \in WellFormedIds =>
        \A k \in 0..MaxSeek :
            k <= NFrames =>
                With(seek(Data, pos, idx, total, k, 0), LAMBDA r :
                    /\ r.exc = "none"
                    /\ r.pos = StartOf(k)
                    /\ r.idx = k)

\* C12 witness: a seek has put the reader at the start of the second frame of
\* a well-formed file of two frames, the total never counted
C12_Witness ==
    /\ last.op = "seek"
    /\ last.exc = "none"
    /\ sid \in WellFormedIds
    /\ NFrames = 2
    /\ idx = 1
    /\ pos = StartOf(1)
    /\ total = -1

\* C13: on a well-formed file of N frames seek(-k, SEEK_END) with 0 <= k <= N,
\* called in any state the reader can be in, ends where seek(N - k, SEEK_SET)
\* ends: the byte offset at the start of frame N - k, the datagram counter
\* N - k; the total is N.
C13_SeekFromEnd ==
    sid \in WellFormedIds =>
        \A k \in 0..MaxSeek :
            k <= NFrames =>
                With(seek(Data, pos, idx, total, -k, 2), LAMBDA e :
                    /\ e.exc = "none"
                    /\ e.pos = StartOf(NFrames - k)
                    /\ e.idx = NFrames - k
                    /\ e.total = NFrames
                    /\ With(seek(Data, pos, idx, total, NFrames - k, 0), LAMBDA r :
                            /\ r.exc = "none"
                            /\ r.pos = e.pos
                            /\ r.idx = e.idx))

\* C13 witness: a seek from the end has stepped back over the last frame of a
\* well-formed file of two frames
C13_Witness ==
    /\ last.op = "seek"
    /\ last.exc = "none"
    /\ sid \in WellFormedIds
    /\ NFrames = 2
    /\ total = 2
    /\ idx = 1
    /\ pos = StartOf(1)

\* C14: the total is set only by a seek from the end, to the count of the
\* forward scan from byte 0; once set no call changes it but reset(), which
\* clears it, and _set_total_dgram_count refuses to scan again.
C14_TotalCached ==
    [][ /\ (total # -1 /\ total' # total) => Reset
        /\ total # -1 => _set_total_dgram_count(Data, pos, idx, total).exc = "ValueError"
        /\ (total = -1 /\ total' # -1) =>
              /\ \E offset \in (-MaxSeek)..0 : SeekTo(offset, 2)
              /\ total' = count_loop(Data, 0, 0).total
        /\ (last'.op = "reset" /\ Reset) => total' = -1 ]_vars

\* C14 witness: a read returned while the total was set
C14_Witness ==
    /\ total = 2
    /\ last.op = "read"
    /\ last.exc = "none"
    /\ idx = 1

\* the arguments seek() refuses
Invalid(offset, whence) ==
    \/ whence = 0 /\ offset < 0
    \/ whence = 2 /\ offset > 0
    \/ whence \notin {0, 1, 2}

\* C15: in any state the reader can be in, seek() with SEEK_SET and a negative
\* offset, with SEEK_END and a positive offset, or with a whence that is none
\* of the three raises ValueError and leaves byte offset, datagram counter and
\* total as they were.
C15_SeekRejects ==
    \A offset \in (-MaxSeek)..MaxSeek, whence \in 0..3 :
        Invalid(offset, whence) =>
            seek(Data, pos, idx, total, offset, whence) = Reader("ValueError", pos, idx, total)

\* C15 witness: a seek was refused in the middle of a file
C15_Witness ==
    /\ last.op = "seek"
    /\ last.exc = "ValueError"
    /\ pos > 0
    /\ idx > 0

\* C16: reset() in any state returns the reader to its state after open:
\* byte offset 0, datagram counter 0, no total.
C16_ResetInitial ==
    [][ (last'.op = "reset" /\ Reset) =>
            /\ last'.exc = "none"
            /\ pos' = 0
            /\ idx' = 0
            /\ total' = -1 ]_vars

\* C16 witness: a reset was made
C16_Witness ==
    /\ last.op = "reset"
    /\ pos = 0
    /\ idx = 0
    /\ total = -1

\* the datagrams of the list are the frames of the open well-formed file, one
\* each and in the order of the file
AllFrames(out) ==
    /\ Len(out) = NFrames
    /\ \A j \in 1..Len(out) :
          /\ out[j].start = StartOf(j - 1)
          /\ out[j].type = TypeAt(Data, StartOf(j - 1))
          /\ out[j].n = SizeAt(Data, StartOf(j - 1))

\* C17: on a well-formed file of N frames a loop over iter_dgrams() from byte
\* 0, and readall(), give the N datagrams of the file, one per frame and in
\* file order, and leave the datagram counter N and the byte offset at the end
\* of the file.
C17_IterateYieldsAll ==
    [][ /\ (last'.op = "iter_dgrams" /\ sid \in WellFormedIds /\ pos = 0 /\ idx = 0
             /\ IterDgrams) =>
                /\ AllFrames(last'.out)
                /\ idx' = NFrames
                /\ pos' = Len(Data)
        /\ (last'.op = "readall" /\ sid \in WellFormedIds /\ ReadAll) =>
                /\ AllFrames(last'.out)
                /\ idx' = NFrames
                /\ pos' = Len(Data) ]_vars

\* C18: a loop over iter_dgrams() that comes to the end of a file that ends
\* at a frame boundary just ends, and so does readall(): no exception reaches
\* the caller.
C18_IterateEndsQuietly ==
    [][ (/\ last'.op \in {"iter_dgrams", "readall"}
         /\ sid \in WellFormedIds
         /\ (IterDgrams \/ ReadAll)) =>
                last'.exc = "none" ]_vars

\* C19: read(1) at an intact frame returns whatever the type of the frame: a
\* type whose first 3 characters are a key of DGRAM_TYPE_KEY goes to that
\* entry's parser, any other to SimradUnknownParser made with those
\* characters; the datagram keeps the type, and the byte offset and the
\* datagram counter advance by the frame and by 1 in both cases.
C19_UnknownTypeIsRead ==
    [][ (last'.op = "read" /\ IntactAt(Data, ReadStart) /\ ReadNext) =>
            /\ last'.exc = "none"
            /\ last'.res.type = TypeAt(Data, ReadStart)
            /\ last'.res.parser =
                  IF SubSeq(TypeAt(Data, ReadStart), 1, 3) \in DGRAM_TYPE_KEY
                  THEN Parser("DGRAM_TYPE_KEY", SubSeq(TypeAt(Data, ReadStart), 1, 3))
                  ELSE Parser("SimradUnknownParser", SubSeq(TypeAt(Data, ReadStart), 1, 3))
            /\ pos' = ReadStart + FrameBytes(Data, ReadStart)
            /\ idx' = idx + 1 ]_vars

\* C19 witness: a frame of a type that is in no table was read
C19_Witness ==
    /\ last.op = "read"
    /\ last.exc = "none"
    /\ last.res.type = ZZZ0
    /\ last.res.parser = Parser("SimradUnknownParser", <<90, 90, 90>>)
    /\ idx = 1

\* x * m + a for x in base-65536 digits, the low digit first, written with as
\* many digits as x has; carry is what is left over
RECURSIVE MulAdd(_, _, _)
MulAdd(x, m, a) ==
    IF x = <<>> THEN [digits |-> <<>>, carry |-> a]
    ELSE With(MulAdd(Tail(x), m, (Head(x) * m + a) \div 65536), LAMBDA upper :
            [digits |-> <<(Head(x) * m + a) % 65536>> \o upper.digits,
             carry |-> upper.carry])

\* the ticks (100 ns) of the timestamp ts, plus r: ts counted back into
\* microseconds and multiplied by 10
TicksOf(ts, r) ==
    With(MulAdd(<<ts.days % 65536, ts.days \div 65536, 0, 0>>, 24, 0), LAMBDA hours :
    With(MulAdd(hours.digits, 3600, ts.seconds), LAMBDA seconds :
    With(MulAdd(seconds.digits, 1000, ts.microseconds \div 1000), LAMBDA millis :
    With(MulAdd(millis.digits, 1000, ts.microseconds % 1000), LAMBDA micros :
    With(MulAdd(micros.digits, 10, r), LAMBDA ticks :
        [digits |-> ticks.digits,
         carry |-> hours.carry + seconds.carry + millis.carry + micros.carry
                     + ticks.carry])))))

\* ts is 1601-01-01T00:00:00 plus floor(((high << 32) + low) / 10) microseconds
IsEpochPlus(ts, low, high) ==
    /\ ts.seconds \in 0..86399
    /\ ts.microseconds \in 0..999999
    /\ \E r \in 0..9 : TicksOf(ts, r) = [digits |-> low \o high, carry |-> 0]

\* C20: for every pair of 32-bit values low, high the timestamp get_header()
\* reports is 1601-01-01T00:00:00 plus floor(((high << 32) + low) / 10)
\* microseconds; 0, 0 gives the epoch itself and 10000000 ticks one second
\* after it.
C20_TimestampConversion ==
    (last.op = "get_header" /\ sid \in TimeIds) =>
        /\ last.exc = "none"
        /\ IsEpochPlus(last.hdr.timestamp, last.hdr.low_date, last.hdr.high_date)
        /\ last.hdr.low_date \o last.hdr.high_date
              = unpack_L(SubSeq(sid[1], 1, 4)) \o unpack_L(SubSeq(sid[1], 5, 8))
        /\ sid[1] = <<0, 0, 0, 0, 0, 0, 0, 0>> =>
              last.hdr.timestamp = [exc |-> "none", days |-> 0, seconds |-> 0,
                                    microseconds |-> 0]
        /\ sid[1] = <<128, 150, 152, 0, 0, 0, 0, 0>> =>
              last.hdr.timestamp = [exc |-> "none", days |-> 0, seconds |-> 1,
                                    microseconds |-> 0]

(***************************************************************************)
(* C21..C27                                                                *)
(***************************************************************************)
\* the seven type tags the search looks for: RAW, NME, TAG, BOT, DEP, XML, MRU
SevenTags ==
    { <<82, 65, 87>>, <<78, 77, 69>>, <<84, 65, 71>>, <<66, 79, 84>>,
      <<68, 69, 80>>, <<88, 77, 76>>, <<77, 82, 85>> }

\* the byte at which the first of the seven tags at or after byte q starts,
\* -1 if there is none
TagFrom(D, q) ==
    With({ i \in q..(Len(D) - 3) : SubSeq(D, i + 1, i + 3) \in SevenTags },
         LAMBDA M : IF M = {} THEN -1 ELSE CHOOSE i \in M : \A j \in M : i <= j)

\* the byte at which a forward step that starts a frame at byte s gives the
\* frame up and searches for the next one, -1 if it does not: after the
\* envelope when the size is below 16, at the end of the file when the
\* payload is cut short (a read; a skip does not look at the payload), after
\* the trailing size when it differs
ResyncFrom(D, s, reads) ==
    IF s + 16 > Len(D) THEN -1
    ELSE IF SizeAt(D, s) < 16 THEN s + 16
    ELSE IF s + 4 + SizeAt(D, s) > Len(D) THEN IF reads THEN Len(D) ELSE -1
    ELSE IF s + 8 + SizeAt(D, s) <= Len(D) /\ SizeAt(D, s + 4 + SizeAt(D, s)) # SizeAt(D, s)
         THEN s + 8 + SizeAt(D, s)
    ELSE -1

C22_EndOfStreamOnlyAtCleanEnd ==
    [][ (held = NoHeader /\ last'.op \in {"read", "skip", "peek", "get_header"}
            /\ last'.finds = 0 /\ (ReadNext \/ Skip \/ Peek \/ GetHeader)) =>
            /\ (Len(Data) - pos) \in 1..15 => last'.exc = "DatagramReadError"
            /\ last'.exc = "SimradEOF" => pos = Len(Data) ]_vars

\* C23: a read(1) or a skip() ends, by returning or by raising, after at most
\* as many searches as the file has bytes; the search made for a frame given
\* up lands on a byte after the start of that frame, which is where a skip()
\* ends and where a read(1) tries again (as the read(1) of the state that the
\* skip() leads to).
C23_RetriesAdvance ==
    [][ (last'.op \in {"read", "skip"} /\ (ReadNext \/ Skip)) =>
            /\ last'.finds <= Len(Data)
            /\ last'.exc \in {"none", "SimradEOF", "DatagramReadError"}
            /\ last'.finds >= 1 => ResyncFrom(Data, ReadStart, last'.op = "read") >= 0
            /\ ResyncFrom(Data, ReadStart, last'.op = "read") >= 0 =>
                  With(_find_next_datagram(Data, ResyncFrom(Data, ReadStart, last'.op = "read")),
                       LAMBDA f :
                          f.exc = "none" =>
                              /\ f.pos > ReadStart
                              /\ last'.op = "skip" => pos' = f.pos) ]_vars

\* C23 witness: a read(1) that searched twice on a file whose two frames both
\* had to be given up
C23_Witness ==
    /\ last.op = "read"
    /\ last.finds = 2
    /\ ResyncFrom(Data, 0, TRUE) >= 0
    /\ pos = Len(Data)

\* C24: the count that seek(.., SEEK_END) caches (skip() repeated from byte 0)
\* is the number of datagrams that read(1) repeated from byte 0 returns on the
\* same file.
C24_TotalIsRecordCount ==
    total # -1 => total = Len(iter_loop(Data, 0, 0, <<>>).out)

\* C25: _current_dgram_offset is never negative, whatever read(1), skip(),
\* skip_back(), peek(), seek() and reset() calls were made on whatever file.
C25_IndexNeverNegative == idx >= 0

\* C26: after every call, whether it returned or raised, the byte position
\* lies inside the file: 0 <= position <= length of the file.
C26_OffsetInsideFile == pos >= 0 /\ pos <= Len(Data)

\* the sizes of the search buffer: the one of the code, which takes every file
\* of the catalogue whole, and sizes that divide these files as the buffer of
\* the code divides a file of more than 10 MiB (a buffer holds a tag of 3
\* bytes at least)
Chunks == 3..MaxChunk \cup {search_buf_bytes}

\* _find_next_datagram() called where the reader stands, with a search buffer
\* of chunk bytes
FindNextDatagram ==
    \E chunk \in Chunks :
    \E f \in { find_loop(Data, pos, pos, chunk) } :
    /\ held = NoHeader
    /\ pos' = f.pos
    /\ last' = Call("_find_next_datagram", f.exc, NoDgram, NoHeader, 1)
    /\ UNCHANGED <<sid, idx, total, held>>

\* the forward calls and the search on its own
NextFind == ReadNext \/ Skip \/ FindNextDatagram \/ Reset

SpecFind == Init /\ [][NextFind]_vars

\* C27: whatever the size of the search buffer, the search started at the
\* reader's position lands 4 bytes before the first of the seven tags at or
\* after that position, and raises SimradEOF when there is none; a tag that
\* lies across the end of a buffer is found like any other.
C27_ChunkIndependent ==
    [][ (last'.op = "_find_next_datagram" /\ pos <= Len(Data) /\ FindNextDatagram) =>
            With(TagFrom(Data, pos), LAMBDA t :
                IF t >= 0 THEN last'.exc = "none" /\ pos' = t - 4
                ELSE last'.exc = "SimradEOF") ]_vars

====
